---- MODULE Spec2Model ----
(***************************************************************************)
(* librawinput: the threaded message window (the pump thread), the         *)
(* construction and teardown of RawInputEventListenerImpl, the preparsed   *)
(* data cache and the dispatch of one WM_INPUT in ProcessWMInput.          *)
(*                                                                         *)
(* Two program threads are modelled by their positions (mainpc, pumppc);   *)
(* the operating system is the environment: it connects and disconnects    *)
(* devices, queues WM_INPUT notifications while the window is subscribed,  *)
(* and answers each call (RegisterRawInputDevices, GetRawInputData,        *)
(* GetRawInputDeviceInfo) with success or failure.                         *)
(***************************************************************************)
EXTENDS Integers, Sequences, FiniteSets, TLC

(* Bound of the model: number of WM_INPUT notifications the OS queues.     *)
MaxReports == 2

(* Device identities (HANDLE values).  The keyboard and the mouse stay     *)
(* connected.  One joystick is plugged in, pulled out and plugged in       *)
(* again: it is hidA at first and, an identity being used once only, hidB  *)
(* after the reconnect.                                                    *)
Devices == {"kbd", "mou", "hidA", "hidB"}

HotPlugDevices == {"hidA", "hidB"}

(* The identity that is pulled out.                                        *)
Removable == {"hidA"}

(* The identity the joystick had before it got identity d.                 *)
EarlierIdentities(d) == IF d = "hidB" THEN {"hidA"} ELSE {}

(* RAWINPUTHEADER.dwType of the reports of a device.                       *)
DevClass(d) ==
    CASE d = "kbd" -> "K"
      [] d = "mou" -> "M"
      [] OTHER     -> "H"

(* The five optional callbacks of RawInputCallbacks.                       *)
CallbackNames == {"Raw", "Kbd", "Mouse", "Hid", "Joy"}

(* The registrations a run starts with.                                    *)
CallbackConfigs ==
    { {}, {"Raw"}, {"Kbd", "Mouse"}, {"Hid"}, {"Joy"},
      {"Raw", "Kbd", "Mouse", "Hid", "Joy"} }

VARIABLES
    mainpc,        \* position of the thread that owns the listener handle
    pumppc,        \* position of the pump thread
    ready,         \* the promise<SubThreadData> has been given its value
    queue,         \* the pump thread's message queue, oldest message first
    cur,           \* the notification ProcessWMInput is working on
    callbacks,     \* callbacks_: the registered callbacks
    cache,         \* preparsed_data_cache_
    cacheAlive,    \* preparsed_data_cache_ is constructed and not destroyed
    queryCount,    \* calls of HidDeviceCaps::FromDevice per device
    subscribed,    \* the OS holds a RIDEV_INPUTSINK registration
    regStatus,     \* outcome of the start-up RegisterDevices
    connected,     \* devices currently connected
    everConnected, \* identities the OS has used
    nDelivered,    \* WM_INPUT notifications queued so far
    log,           \* callback invocations, in order
    handled,       \* ids of the notifications retrieved by GetMessage, in order
    readFailed,    \* ids whose GetRawInputData failed
    startupList,   \* devices enumerated by the constructor
    notifiedGone,  \* devices whose disconnect notification was dispatched
    finds,         \* the cache lookups made, in order, with their results
    decodes,       \* the decode functions run, each with the notification's id
    decpc,         \* position of the decoding of one HID report
    device,        \* the value and button capabilities the OS reports
    notification,  \* what the OS holds for one HRAWINPUT, and its answers
    rawinput,      \* the result of input_data_buffer and the calls it made
    hidCaps,       \* the HidDeviceCaps made by FromDevice
    hidEvent,      \* the HidEvent made by HidEvent::Parse
    joyEvent       \* the JoystickHidEvent made by FromHidEvent

pumpVars == << mainpc, pumppc, ready, queue, cur, callbacks, cache,
               cacheAlive, queryCount, subscribed, regStatus, connected,
               everConnected, nDelivered, log, handled, readFailed,
               startupList, notifiedGone, finds, decodes >>

decVars == << decpc, device, notification, rawinput, hidCaps, hidEvent,
             joyEvent >>

vars == << pumpVars, decVars >>

osVars == << connected, everConnected, nDelivered >>

histVars == << startupList, notifiedGone, finds >>

NoCur == [id |-> 0, dev |-> "-", data |-> "-", type |-> "-"]

(* The pump thread is inside ProcessWMInput.                               *)
Processing == pumppc \in {"rawcb", "kbd", "mouse", "hid", "joy"}

(* The message window exists: between CreateMessageWindow and the end of   *)
(* the thread function, which destroys wnd_handle.                         *)
WindowExists == pumppc \in {"notify", "loop", "rawcb", "kbd", "mouse", "hid", "joy"}

PumpInit ==
    /\ mainpc = "start"
    /\ pumppc = "notStarted"
    /\ ready = FALSE
    /\ queue = << >>
    /\ cur = NoCur
    /\ callbacks \in CallbackConfigs
    /\ cache = [d \in Devices |-> "absent"]
    /\ cacheAlive = FALSE
    /\ queryCount = [d \in Devices |-> 0]
    /\ subscribed = FALSE
    /\ regStatus = "none"
    /\ connected = Devices \ HotPlugDevices
    /\ everConnected = Devices \ HotPlugDevices
    /\ nDelivered = 0
    /\ log = << >>
    /\ handled = << >>
    /\ readFailed = {}
    /\ startupList = {}
    /\ notifiedGone = {}
    /\ finds = << >>
    /\ decodes = {}

(* No report is being decoded on its own.                                  *)
DecodeOff ==
    /\ decpc = "off"
    /\ device = "-"
    /\ notification = "-"
    /\ rawinput = "-"
    /\ hidCaps = "-"
    /\ hidEvent = "-"
    /\ joyEvent = "-"

Init == PumpInit /\ DecodeOff

----------------------------------------------------------------------------
(* The process is running: no thread has hit an access violation.          *)
Alive == pumppc # "crashed"

(* The messages: the posted ones, and WM_INPUT for notification n of       *)
(* device d.                                                               *)
MsgRegister(flags) == [kind |-> "REGISTER", arg |-> flags, id |-> 0]

MsgQuit == [kind |-> "QUIT", arg |-> "-", id |-> 0]

MsgDeviceChange(d) == [kind |-> "DEVCHANGE", arg |-> d, id |-> 0]

MsgInput(n, d) == [kind |-> "INPUT", arg |-> d, id |-> n]

----------------------------------------------------------------------------
(* The operating system.                                                   *)

(* The joystick is plugged in under an identity never used before.         *)
Connect(d) ==
    /\ Alive
    /\ d \in HotPlugDevices \ everConnected
    /\ EarlierIdentities(d) \subseteq everConnected \ connected
    /\ connected' = connected \cup {d}
    /\ everConnected' = everConnected \cup {d}
    /\ UNCHANGED << decVars, decodes, mainpc, pumppc, ready, queue, cur, callbacks, cache,
                    cacheAlive, queryCount, subscribed, regStatus, nDelivered,
                    log, handled, readFailed, histVars >>

(* The joystick is pulled out; the window, when there is one, is sent the  *)
(* removal notification.                                                   *)
Disconnect(d) ==
    /\ Alive
    /\ d \in connected \cap Removable
    /\ connected' = connected \ {d}
    /\ queue' = IF WindowExists THEN Append(queue, MsgDeviceChange(d)) ELSE queue
    /\ UNCHANGED << decVars, decodes, mainpc, pumppc, ready,  cur, callbacks, cache,
                    cacheAlive, queryCount, subscribed, regStatus,
                    everConnected, nDelivered, log, handled, readFailed,
                    histVars >>

(* A report of a connected device arrives: WM_INPUT is queued for the      *)
(* subscribed window.                                                      *)
Deliver(d) ==
    /\ Alive
    /\ subscribed
    /\ WindowExists
    /\ d \in connected
    /\ nDelivered < MaxReports
    /\ nDelivered' = nDelivered + 1
    /\ queue' = Append(queue, MsgInput(nDelivered + 1, d))
    /\ UNCHANGED << decVars, decodes, mainpc, pumppc, ready,  cur, callbacks, cache,
                    cacheAlive, queryCount, subscribed, regStatus, connected,
                    everConnected, log, handled, readFailed, histVars >>

----------------------------------------------------------------------------
(* The thread that calls StartRawInput and later drops the handle.         *)

(* The result of GetRawInputDeviceList when its queries succeed and every   *)
(* device is described: the connected devices.  The queries one at a time, *)
(* with their failures, are the steps QueryDeviceCount and QueryDeviceList.*)
GetRawInputDeviceList(conn) == {conn}

(* The possible results of HidDeviceCaps::FromDevice: a descriptor, or     *)
(* nullptr when a query fails.  The entry of a keyboard or a mouse is      *)
(* never looked up; it is the descriptor without fields.                   *)
FromDevice(d) == IF DevClass(d) = "H" THEN {"caps", "null"} ELSE {"caps"}

(* Variant: the list names a device twice and it is resolved twice.        *)
FromDeviceCallsTwice(list, d) == IF d \in list THEN 2 ELSE 0

(* Calls of FromDevice the constructor makes for device d.                 *)
FromDeviceCalls(list, d) == IF d \in list THEN 1 ELSE 0

(* Variant: the constructor does not wait for the future.                  *)
WaitForReadySkipped == TRUE

(* future.get(): blocks until the pump thread has set the promise.         *)
WaitForReady == ready

(* Variant: the thread is detached instead of joined.                      *)
JoinThreadDetached == TRUE

(* thread_.join(): blocks until the thread function has returned.          *)
JoinThread == pumppc = "exited"

(* ThreadedMessageWindow's constructor starts the pump thread.             *)
MainSpawn ==
    /\ Alive
    /\ mainpc = "start"
    /\ mainpc' = "waitReady"
    /\ pumppc' = "init"
    /\ UNCHANGED << decVars, decodes, ready, queue, cur, callbacks, cache, cacheAlive,
                    queryCount, subscribed, regStatus, osVars, log, handled,
                    readFailed, histVars >>

(* Variant: WM_REGISTER_DEVICE is posted as soon as the window is known,   *)
(* ahead of the enumeration.                                               *)
MainWaitReadyPostsRegister ==
    /\ Alive
    /\ mainpc = "waitReady"
    /\ WaitForReady
    /\ mainpc' = "enumerate"
    /\ cacheAlive' = TRUE
    /\ queue' = Append(queue, MsgRegister("INPUTSINK"))
    /\ UNCHANGED << decVars, decodes, pumppc, ready, cur, callbacks, cache,
                    queryCount, subscribed, regStatus, osVars, log, handled,
                    readFailed, histVars >>

(* ... and waits for ready; then preparsed_data_cache_ is constructed.     *)
MainWaitReady ==
    /\ Alive
    /\ mainpc = "waitReady"
    /\ WaitForReady
    /\ mainpc' = "enumerate"
    /\ cacheAlive' = TRUE
    /\ UNCHANGED << decVars, decodes, pumppc, ready, queue, cur, callbacks, cache,
                    queryCount, subscribed, regStatus, osVars, log, handled,
                    readFailed, histVars >>

(* The constructor's body: enumerate, and resolve every listed device.     *)
MainPopulateCache ==
    /\ Alive
    /\ mainpc = "enumerate"
    /\ \E list \in GetRawInputDeviceList(connected) :
         \E res \in [list -> UNION {FromDevice(d) : d \in Devices}] :
            /\ \A d \in list : res[d] \in FromDevice(d)
            /\ cache' = [d \in Devices |-> IF d \in list THEN res[d] ELSE cache[d]]
            /\ queryCount' = [d \in Devices |-> queryCount[d] + FromDeviceCalls(list, d)]
            /\ startupList' = list
    /\ mainpc' = "postRegister"
    /\ UNCHANGED << decVars, decodes, pumppc, ready, queue, cur, callbacks, cacheAlive,
                    subscribed, regStatus, osVars, log, handled, readFailed,
                    notifiedGone, finds >>

(* "Starts event listening": WM_REGISTER_DEVICE is posted, and the         *)
(* constructor returns; StartRawInput hands out the handle.                *)
MainPostRegister ==
    /\ Alive
    /\ mainpc = "postRegister"
    /\ queue' = Append(queue, MsgRegister("INPUTSINK"))
    /\ mainpc' = "running"
    /\ UNCHANGED << decVars, decodes, pumppc, ready,  cur, callbacks, cache, cacheAlive,
                    queryCount, subscribed, regStatus, osVars, log, handled,
                    readFailed, histVars >>

(* Variant: WM_QUIT is posted ahead of the removal request.                *)
DtorStartQuitFirst ==
    /\ Alive
    /\ mainpc = "running"
    /\ queue' = queue \o << MsgQuit, MsgRegister("REMOVE") >>
    /\ cacheAlive' = FALSE
    /\ mainpc' = "dtorJoin"
    /\ UNCHANGED << decVars, decodes, pumppc, ready,  cur, callbacks, cache, queryCount,
                    subscribed, regStatus, osVars, log, handled, readFailed,
                    histVars >>

(* The handle is dropped.  ~RawInputEventListenerImpl's body posts the     *)
(* removal request; then the members go in reverse order of declaration:   *)
(* preparsed_data_cache_ is destroyed, and message_window_ after it, whose *)
(* destructor posts WM_QUIT ...                                            *)
DtorStart ==
    /\ Alive
    /\ mainpc = "running"
    /\ queue' = queue \o << MsgRegister("REMOVE"), MsgQuit >>
    /\ cacheAlive' = FALSE
    /\ mainpc' = "dtorJoin"
    /\ UNCHANGED << decVars, decodes, pumppc, ready,  cur, callbacks, cache, queryCount,
                    subscribed, regStatus, osVars, log, handled, readFailed,
                    histVars >>

(* ... and joins the thread; callbacks_ is destroyed after that and the    *)
(* destructor returns.                                                     *)
DtorJoin ==
    /\ Alive
    /\ mainpc = "dtorJoin"
    /\ JoinThread
    /\ mainpc' = "destroyed"
    /\ UNCHANGED << decVars, decodes, pumppc, ready, queue, cur, callbacks, cache,
                    cacheAlive, queryCount, subscribed, regStatus, osVars, log,
                    handled, readFailed, histVars >>

----------------------------------------------------------------------------
(* The pump thread.                                                        *)

(* Positions of the posted messages (all but WM_INPUT) in a queue.         *)
PostedAt(q) == {i \in 1 .. Len(q) : q[i].kind # "INPUT"}

(* Variant: any queued message may be handed out next.                     *)
RetrievableAny(q) == 1 .. Len(q)

(* GetMessageA: the positions of the messages it may hand out next.  The   *)
(* oldest message; or the oldest posted message, which the system hands    *)
(* out ahead of queued input.  A WM_INPUT is never handed out ahead of an  *)
(* older message.                                                          *)
Retrievable(q) ==
    IF q = << >> THEN {}
    ELSE {1} \cup {i \in PostedAt(q) : \A j \in PostedAt(q) : i <= j}

(* The queue without the message at position i.                            *)
Without(q, i) == SubSeq(q, 1, i - 1) \o SubSeq(q, i + 1, Len(q))

(* The possible results of input_data_buffer: the report, or nullptr when  *)
(* GetRawInputData fails, also after the probe and the second read.        *)
InputDataBuffer == {"ok", "null"}

(* Variant: the raw callback is raised after the typed blocks.             *)
StageAfterRawLast(s) ==
    CASE s = "begin" -> "kbd"
      [] s = "kbd"   -> "mouse"
      [] s = "mouse" -> "hid"
      [] s = "hid"   -> "joy"
      [] s = "joy"   -> "rawcb"
      [] OTHER       -> "loop"

(* The order of ProcessWMInput's stages: the raw callback, the keyboard,   *)
(* the mouse and the HID block, the joystick callback inside the HID       *)
(* block, and the return to the message loop.                              *)
StageAfter(s) ==
    CASE s = "begin" -> "rawcb"
      [] s = "rawcb" -> "kbd"
      [] s = "kbd"   -> "mouse"
      [] s = "mouse" -> "hid"
      [] s = "hid"   -> "joy"
      [] OTHER       -> "loop"

CurAfter(c, next) == IF next = "loop" THEN NoCur ELSE c

(* What a read of data->header.dwType yields.  With data == nullptr the    *)
(* read is undefined: an access violation, or whatever the build reads     *)
(* there (one value for all the reads of one report).                      *)
TypeReads(c) ==
    IF c.data = "ok" THEN {DevClass(c.dev)}
    ELSE IF c.type # "?" THEN {c.type}
    ELSE {"K", "M", "H", "X", "CRASH"}

(* What a read of data->header.hDevice yields.                             *)
HeaderDevice(c) == IF c.data = "ok" THEN {c.dev} ELSE HotPlugDevices

(* Variant: the lookup tests "it != end()" only, so that a stored nullptr   *)
(* counts as a descriptor.                                                 *)
CacheFindIgnoresNull(h) ==
    IF cacheAlive
    THEN {IF cache[h] # "absent" THEN "hit" ELSE "miss"}
    ELSE {"hit", "miss", "CRASH"}

(* preparsed_data_cache_.find(h) with the test "it != end() && it->second".*)
(* On a destroyed map the call is undefined: the freed nodes may still     *)
(* read as before, read as nothing, or fault.                              *)
CacheFind(h) ==
    IF cacheAlive
    THEN {IF cache[h] = "caps" THEN "hit" ELSE "miss"}
    ELSE {"hit", "miss", "CRASH"}

(* The device a callback is shown.                                         *)
SeenDevice(c) == IF c.data = "ok" THEN c.dev ELSE "null"

(* The decode function that feeds a callback.                              *)
DecoderOf(cb) ==
    CASE cb = "Kbd"   -> "KeyboardEvent::Parse"
      [] cb = "Mouse" -> "MouseEvent::Parse"
      [] cb = "Hid"   -> "HidEvent::Parse"
      [] cb = "Joy"   -> "JoystickHidEvent::FromHidEvent"

Decode(cb, c) == decodes \cup {[fn |-> DecoderOf(cb), id |-> c.id]}

(* Variant: the HID block is entered whatever callbacks are registered.    *)
HidBlockEnteredAlways(cbs) == TRUE

(* callbacks_.HidEventCallback || callbacks_.JoystickHidEventCallback      *)
HidBlockEntered(cbs) == cbs \cap {"Hid", "Joy"} # {}

Invoke(cb, c) == Append(log, [cb |-> cb, id |-> c.id, dev |-> SeenDevice(c)])

Crash ==
    /\ pumppc' = "crashed"
    /\ UNCHANGED << decVars, decodes, mainpc, ready, queue, cur, callbacks, cache,
                    cacheAlive, queryCount, subscribed, regStatus, osVars, log,
                    handled, readFailed, histVars >>

(* The thread function up to PeekMessageA: window class, window, queue.    *)
PumpCreateWindow ==
    /\ pumppc = "init"
    /\ pumppc' = "notify"
    /\ UNCHANGED << decVars, decodes, mainpc, ready, queue, cur, callbacks, cache,
                    cacheAlive, queryCount, subscribed, regStatus, osVars, log,
                    handled, readFailed, histVars >>

(* ready.set_value(...), and into the message loop.                        *)
PumpNotifyReady ==
    /\ pumppc = "notify"
    /\ ready' = TRUE
    /\ pumppc' = "loop"
    /\ UNCHANGED << decVars, decodes, mainpc, queue, cur, callbacks, cache, cacheAlive,
                    queryCount, subscribed, regStatus, osVars, log, handled,
                    readFailed, histVars >>

(* GetMessageA returns 0 on WM_QUIT: the loop ends, the thread function    *)
(* returns and the window is destroyed with what is left in its queue.     *)
PumpQuit ==
    /\ pumppc = "loop"
    /\ \E i \in Retrievable(queue) :
         /\ queue[i].kind = "QUIT"
         /\ queue' = Without(queue, i)
    /\ pumppc' = "exited"
    /\ UNCHANGED << decVars, decodes, mainpc, ready, cur, callbacks, cache, cacheAlive,
                    queryCount, subscribed, regStatus, osVars, log, handled,
                    readFailed, histVars >>

(* WM_REGISTER_DEVICE: RegisterDevices(flags, target); the OS call         *)
(* succeeds or fails, and a failure is logged and returned as 1 to nobody. *)
PumpRegisterDevices ==
    /\ pumppc = "loop"
    /\ \E i \in Retrievable(queue) :
         /\ queue[i].kind = "REGISTER"
         /\ queue' = Without(queue, i)
         /\ \E ok \in BOOLEAN :
              LET flags == queue[i].arg IN
              /\ subscribed' = IF ok THEN (flags = "INPUTSINK") ELSE subscribed
              /\ regStatus' = IF flags = "INPUTSINK"
                              THEN (IF ok THEN "ok" ELSE "failed")
                              ELSE regStatus
    /\ UNCHANGED << decVars, decodes, mainpc, pumppc, ready, cur, callbacks, cache, cacheAlive,
                    queryCount, osVars, log, handled, readFailed, histVars >>

(* Any other message takes the window procedure's default branch.          *)
PumpDeviceChange ==
    /\ pumppc = "loop"
    /\ \E i \in Retrievable(queue) :
         /\ queue[i].kind = "DEVCHANGE"
         /\ queue' = Without(queue, i)
         /\ notifiedGone' = notifiedGone \cup {queue[i].arg}
    /\ UNCHANGED << decVars, decodes, mainpc, pumppc, ready, cur, callbacks, cache, cacheAlive,
                    queryCount, subscribed, regStatus, osVars, log, handled,
                    readFailed, startupList, finds >>

(* WM_INPUT: ProcessWMInput starts and reads the report.                   *)
PumpBeginInput ==
    /\ pumppc = "loop"
    /\ \E i \in Retrievable(queue) :
         /\ queue[i].kind = "INPUT"
         /\ queue' = Without(queue, i)
         /\ handled' = Append(handled, queue[i].id)
         /\ \E data \in InputDataBuffer :
              /\ cur' = [id |-> queue[i].id, dev |-> queue[i].arg, data |-> data,
                         type |-> IF data = "ok" THEN DevClass(queue[i].arg)
                                  ELSE "?"]
              /\ readFailed' = IF data = "ok" THEN readFailed
                               ELSE readFailed \cup {queue[i].id}
    /\ pumppc' = StageAfter("begin")
    /\ UNCHANGED << decVars, decodes, mainpc, ready, callbacks, cache, cacheAlive, queryCount,
                    subscribed, regStatus, osVars, log, histVars >>

(* if (callbacks_.RawInputEventCallback) ...(data, now)                    *)
PumpRawCallback ==
    /\ pumppc = "rawcb"
    /\ log' = IF "Raw" \in callbacks THEN Invoke("Raw", cur) ELSE log
    /\ pumppc' = StageAfter("rawcb")
    /\ cur' = CurAfter(cur, StageAfter("rawcb"))
    /\ UNCHANGED << decVars, decodes, mainpc, ready, queue, callbacks, cache, cacheAlive,
                    queryCount, subscribed, regStatus, osVars, handled,
                    readFailed, histVars >>

(* A typed block for keyboard or mouse: the callback test comes first, so  *)
(* data is read only when the callback is registered.                      *)
TypedStage(stage, cb, class) ==
    /\ pumppc = stage
    /\ IF cb \notin callbacks
       THEN /\ pumppc' = StageAfter(stage)
            /\ cur' = CurAfter(cur, StageAfter(stage))
            /\ UNCHANGED << decVars, decodes, mainpc, ready, queue, callbacks, cache,
                            cacheAlive, queryCount, subscribed, regStatus,
                            osVars, log, handled, readFailed, histVars >>
       ELSE \E t \in TypeReads(cur) :
              IF t = "CRASH"
              THEN Crash
              ELSE /\ log' = IF t = class
                             THEN Invoke(cb, [cur EXCEPT !.type = t])
                             ELSE log
                   /\ decodes' = IF t = class THEN Decode(cb, cur) ELSE decodes
                   /\ pumppc' = StageAfter(stage)
                   /\ cur' = CurAfter([cur EXCEPT !.type = t], StageAfter(stage))
                   /\ UNCHANGED << decVars, mainpc, ready, queue, callbacks,
                                   cache, cacheAlive, queryCount, subscribed,
                                   regStatus, osVars, handled, readFailed,
                                   histVars >>

PumpKeyboard == TypedStage("kbd", "Kbd", "K")

PumpMouse == TypedStage("mouse", "Mouse", "M")

(* The HID block: the cache lookup, HidEvent::Parse and the HID callback.  *)
PumpHid ==
    /\ pumppc = "hid"
    /\ IF ~HidBlockEntered(callbacks)
       THEN /\ pumppc' = StageAfter("joy")
            /\ cur' = CurAfter(cur, StageAfter("joy"))
            /\ UNCHANGED << decVars, decodes, mainpc, ready, queue, callbacks, cache,
                            cacheAlive, queryCount, subscribed, regStatus,
                            osVars, log, handled, readFailed, histVars >>
       ELSE \E t \in TypeReads(cur) :
              IF t = "CRASH"
              THEN Crash
              ELSE IF t # "H"
              THEN /\ pumppc' = StageAfter("joy")
                   /\ cur' = CurAfter(cur, StageAfter("joy"))
                   /\ UNCHANGED << decVars, decodes, mainpc, ready, queue, callbacks,
                                   cache, cacheAlive, queryCount, subscribed,
                                   regStatus, osVars, log, handled, readFailed,
                                   histVars >>
              ELSE \E h \in HeaderDevice(cur) : \E r \in CacheFind(h) :
                     IF r = "CRASH"
                     THEN Crash
                     ELSE /\ finds' = Append(finds, [id |-> cur.id, dev |-> h,
                                                      result |-> r,
                                                      alive |-> cacheAlive,
                                                      data |-> cur.data])
                          /\ decodes' = IF r = "hit" THEN Decode("Hid", cur)
                                        ELSE decodes
                          /\ log' = IF r = "hit" /\ "Hid" \in callbacks
                                    THEN Invoke("Hid", [cur EXCEPT !.type = t])
                                    ELSE log
                          /\ LET next == IF r = "hit" THEN StageAfter("hid")
                                         ELSE StageAfter("joy") IN
                             /\ pumppc' = next
                             /\ cur' = CurAfter([cur EXCEPT !.type = t], next)
                          /\ UNCHANGED << decVars, mainpc, ready, queue,
                                          callbacks, cache, cacheAlive,
                                          queryCount, subscribed, regStatus,
                                          osVars, handled, readFailed,
                                          startupList, notifiedGone >>

(* JoystickHidEvent::FromHidEvent and the joystick callback.               *)
PumpJoystick ==
    /\ pumppc = "joy"
    /\ log' = IF "Joy" \in callbacks THEN Invoke("Joy", cur) ELSE log
    /\ decodes' = IF "Joy" \in callbacks THEN Decode("Joy", cur) ELSE decodes
    /\ pumppc' = StageAfter("joy")
    /\ cur' = CurAfter(cur, StageAfter("joy"))
    /\ UNCHANGED << decVars, mainpc, ready, queue, callbacks, cache, cacheAlive,
                    queryCount, subscribed, regStatus, osVars, handled,
                    readFailed, histVars >>

----------------------------------------------------------------------------
OsStep == \E d \in Devices : Connect(d) \/ Disconnect(d) \/ Deliver(d)

MainStep ==
    \/ MainSpawn
    \/ MainWaitReady
    \/ MainPopulateCache
    \/ MainPostRegister
    \/ DtorStart
    \/ DtorJoin

PumpStep ==
    \/ PumpCreateWindow
    \/ PumpNotifyReady
    \/ PumpQuit
    \/ PumpRegisterDevices
    \/ PumpDeviceChange
    \/ PumpBeginInput
    \/ PumpRawCallback
    \/ PumpKeyboard
    \/ PumpMouse
    \/ PumpHid
    \/ PumpJoystick

Next == OsStep \/ MainStep \/ PumpStep

Spec == Init /\ [][Next]_vars

----------------------------------------------------------------------------
(* The decoding of one HID report, step by step: HidDeviceCaps::FromDevice *)
(* expands what the OS reports about the device, HidEvent::Parse reads the *)
(* report against it, JoystickHidEvent::FromHidEvent normalizes the event. *)

(* Capacities of HidEvent's fixed vectors and of a page's button mask.     *)
kMaxCountOfValues == 16

kMaxCountOfButtonPages == 16

kMaxCountOfButtonsPerPage == 64

(* Usage pages and usages of hidusage.h that the code names.               *)
HID_USAGE_PAGE_GENERIC == 1

HID_USAGE_PAGE_SIMULATION == 2

HID_USAGE_PAGE_GAME == 5

HID_USAGE_PAGE_BUTTON == 9

(* A page the code does not name.                                          *)
HID_USAGE_PAGE_CONSUMER == 12

HID_USAGE_GENERIC_X == 48

HID_USAGE_GENERIC_Y == 49

HID_USAGE_GENERIC_Z == 50

HID_USAGE_GENERIC_RX == 51

HID_USAGE_GENERIC_RY == 52

HID_USAGE_GENERIC_RZ == 53

HID_USAGE_GENERIC_SLIDER == 54

HID_USAGE_GENERIC_HATSWITCH == 57

HID_USAGE_SIMULATION_RUDDER == 186

HID_USAGE_SIMULATION_THROTTLE == 187

HID_USAGE_SIMULATION_ACCELLERATOR == 196

HID_USAGE_SIMULATION_BRAKE == 197

HID_USAGE_SIMULATION_STEERING == 200

HID_USAGE_GAME_POINT_OF_VIEW == 32

(* Bounds of the decoded inputs.                                           *)
MaxButtonCaps == 2

MaxPressed == 2

MaxValue == 5

MaxCaps == 18

(* HIDP_VALUE_CAPS and HIDP_BUTTON_CAPS, the members the code reads.  For  *)
(* a cap that is no range NotRange.Usage is stored in UsageMin.            *)
ValueCap(page, usage, lo, hi) ==
    [UsagePage |-> page, Usage |-> usage, LogicalMin |-> lo, LogicalMax |-> hi]

ButtonCap(page, isRange, first, last) ==
    [UsagePage |-> page, IsRange |-> isRange, UsageMin |-> first,
     UsageMax |-> last]

(* A report: the value fields it carries, the usages it has pressed, and   *)
(* the usage pages whose buttons cannot be read from it (they belong to    *)
(* another report id, or more than 64 of them are pressed).                *)
(* A field a report carries, and a usage it reports pressed.               *)
Field(page, usage, value) == [Page |-> page, Usage |-> usage, Value |-> value]

Pressed(page, usage) == [Page |-> page, Usage |-> usage]

(* Sequences over S of a length between 1 and n.                           *)
SeqUpTo(S, n) == UNION {[1 .. k -> S] : k \in 1 .. n}

(* Button devices: one or more caps of the button page, and a report that  *)
(* has some usages of that page pressed.                                   *)
ButtonCapChoices ==
    {ButtonCap(HID_USAGE_PAGE_BUTTON, TRUE, r[1], r[2]) :
        r \in {<<1, 2>>, <<3, 4>>, <<4, 5>>, <<1, 10>>, <<11, 70>>, <<1, 64>>}}
    \cup {ButtonCap(HID_USAGE_PAGE_BUTTON, FALSE, 3, 3)}

PressedChoices == {1, 2, 3, 4, 5, 10, 11, 12, 64, 65, 70, 71}

ButtonScenarios ==
    {[device |-> [ValueCaps |-> << >>, ButtonCaps |-> bc],
      report |-> [values |-> {},
                  pressed |-> {Pressed(HID_USAGE_PAGE_BUTTON, u) : u \in us},
                  unreadable |-> {}]] :
        bc \in SeqUpTo(ButtonCapChoices, MaxButtonCaps),
        us \in {x \in SUBSET PressedChoices : Cardinality(x) <= MaxPressed}}

(* Value devices: one field of any kind, or the two fields of one slot     *)
(* (a generic-desktop usage and the simulation or game usage mapped to the *)
(* same slot) in either order, with the values the report carries.         *)
SlotPairs ==
    {<< <<HID_USAGE_PAGE_GENERIC, HID_USAGE_GENERIC_X>>,
        <<HID_USAGE_PAGE_SIMULATION, HID_USAGE_SIMULATION_STEERING>> >>,
     << <<HID_USAGE_PAGE_GENERIC, HID_USAGE_GENERIC_Y>>,
        <<HID_USAGE_PAGE_SIMULATION, HID_USAGE_SIMULATION_ACCELLERATOR>> >>,
     << <<HID_USAGE_PAGE_GENERIC, HID_USAGE_GENERIC_Z>>,
        <<HID_USAGE_PAGE_SIMULATION, HID_USAGE_SIMULATION_BRAKE>> >>,
     << <<HID_USAGE_PAGE_GENERIC, HID_USAGE_GENERIC_RZ>>,
        <<HID_USAGE_PAGE_SIMULATION, HID_USAGE_SIMULATION_RUDDER>> >>,
     << <<HID_USAGE_PAGE_GENERIC, HID_USAGE_GENERIC_SLIDER>>,
        <<HID_USAGE_PAGE_SIMULATION, HID_USAGE_SIMULATION_THROTTLE>> >>,
     << <<HID_USAGE_PAGE_GENERIC, HID_USAGE_GENERIC_HATSWITCH>>,
        <<HID_USAGE_PAGE_GAME, HID_USAGE_GAME_POINT_OF_VIEW>> >>}

FieldKinds ==
    {p[1] : p \in SlotPairs} \cup {p[2] : p \in SlotPairs}
    \cup {<<HID_USAGE_PAGE_GENERIC, HID_USAGE_GENERIC_RX>>,
          <<HID_USAGE_PAGE_GENERIC, HID_USAGE_GENERIC_RY>>,
          <<HID_USAGE_PAGE_GENERIC, 1>>,
          <<HID_USAGE_PAGE_SIMULATION, 1>>,
          <<HID_USAGE_PAGE_GAME, 1>>,
          <<HID_USAGE_PAGE_CONSUMER, HID_USAGE_GENERIC_X>>}

ValueRanges == {<<0, 150>>, <<0, 4>>, <<-2, 2>>, <<1, 3>>, <<2, 2>>, <<0, 0>>}

ValueChoices == (-3 .. MaxValue) \cup {75, 150, 200}

ValueDevice(kinds, range) ==
    [ValueCaps |-> [i \in 1 .. Len(kinds) |->
                        ValueCap(kinds[i][1], kinds[i][2], range[1], range[2])],
     ButtonCaps |-> << >>]

ValueReport(kinds, values) ==
    [values |-> {Field(kinds[i][1], kinds[i][2], values[i]) : i \in 1 .. Len(kinds)},
     pressed |-> {},
     unreadable |-> {}]

ValueScenarios ==
    {[device |-> ValueDevice(<<k>>, r), report |-> ValueReport(<<k>>, <<v>>)] :
        k \in FieldKinds, r \in ValueRanges, v \in ValueChoices}
    \cup
    {[device |-> ValueDevice(ks, r), report |-> ValueReport(ks, <<v, w>>)] :
        ks \in {<<p[1], p[2]>> : p \in SlotPairs} \cup {<<p[2], p[1]>> : p \in SlotPairs},
        r \in ValueRanges, v \in ValueChoices, w \in ValueChoices}

(* Devices with many fields: n value fields and n button caps, the i-th    *)
(* with usage i; the report carries value i in field i, but for one field   *)
(* that it may not carry, and has the first and the last button pressed.   *)
ManyFieldScenarios ==
    {[device |-> [ValueCaps |-> [i \in 1 .. n |->
                                    ValueCap(HID_USAGE_PAGE_GENERIC, i, 0, MaxCaps)],
                  ButtonCaps |-> [i \in 1 .. n |->
                                    ButtonCap(HID_USAGE_PAGE_BUTTON, FALSE, i, i)]],
      report |-> [values |-> {Field(HID_USAGE_PAGE_GENERIC, i, i) :
                                  i \in (1 .. n) \ {missing}},
                  pressed |-> {Pressed(HID_USAGE_PAGE_BUTTON, u) :
                                  u \in {1, n} \cap (1 .. n)},
                  unreadable |-> {}]] :
        n \in 0 .. MaxCaps, missing \in 0 .. MaxCaps}

(* Devices whose reports are read in part: three axes and three button    *)
(* caps on two pages; the report may lack any of the fields, and the      *)
(* buttons of either page may be unreadable.                               *)
PartialDevice ==
    [ValueCaps |-> << ValueCap(HID_USAGE_PAGE_GENERIC, HID_USAGE_GENERIC_X, 0, 4),
                      ValueCap(HID_USAGE_PAGE_GENERIC, HID_USAGE_GENERIC_Y, 0, 4),
                      ValueCap(HID_USAGE_PAGE_GENERIC, HID_USAGE_GENERIC_Z, 0, 4) >>,
     ButtonCaps |-> << ButtonCap(HID_USAGE_PAGE_BUTTON, TRUE, 1, 4),
                       ButtonCap(HID_USAGE_PAGE_CONSUMER, FALSE, 1, 1),
                       ButtonCap(HID_USAGE_PAGE_BUTTON, TRUE, 5, 8) >>]

PartialScenarios ==
    {[device |-> PartialDevice,
      report |-> [values |-> {Field(HID_USAGE_PAGE_GENERIC, u, u - 47) : u \in us},
                  pressed |-> {Pressed(HID_USAGE_PAGE_BUTTON, 1),
                               Pressed(HID_USAGE_PAGE_BUTTON, 6),
                               Pressed(HID_USAGE_PAGE_CONSUMER, 1)},
                  unreadable |-> bad]] :
        us \in SUBSET {HID_USAGE_GENERIC_X, HID_USAGE_GENERIC_Y, HID_USAGE_GENERIC_Z},
        bad \in SUBSET {HID_USAGE_PAGE_BUTTON, HID_USAGE_PAGE_CONSUMER}}

(* Devices of sliders and hat switches only: up to MaxFields fields, the   *)
(* i-th with the range 0 .. i, so that one value of the report is          *)
(* normalized differently for each of them.                                *)
MaxFields == 8

SliderHatScenarios ==
    {[device |-> [ValueCaps |-> [i \in 1 .. Len(us) |->
                                    ValueCap(HID_USAGE_PAGE_GENERIC, us[i], 0, i)],
                  ButtonCaps |-> << >>],
      report |-> [values |-> {Field(HID_USAGE_PAGE_GENERIC, us[i], v) :
                                  i \in 1 .. Len(us)},
                  pressed |-> {},
                  unreadable |-> {}]] :
        us \in SeqUpTo({HID_USAGE_GENERIC_SLIDER, HID_USAGE_GENERIC_HATSWITCH},
                       MaxFields),
        v \in 0 .. 3}

(* What the OS holds for one HRAWINPUT: the reports of the notification    *)
(* (RAWHID.dwCount of them, in bRawData), the size of the RAWINPUT, and    *)
(* the calls of GetRawInputData, by their number, that the OS fails.       *)
Notification(reports, size, fails) ==
    [reports |-> reports, size |-> size, fails |-> fails]

(* A notification of one report that fits the fixed buffer and is read at  *)
(* the first call.                                                         *)
Plain(sc) == [device |-> sc.device,
              notification |-> Notification(<<sc.report>>, 40, {})]

(* The readings of one notification: a RAWINPUT that fits the fixed buffer *)
(* or not, and any of the three calls failing.                             *)
ReadScenarios ==
    {[device |-> PartialDevice,
      notification |->
          Notification(<< [values |-> {Field(HID_USAGE_PAGE_GENERIC,
                                             HID_USAGE_GENERIC_X, 2)},
                           pressed |-> {}, unreadable |-> {}] >>,
                       size, fails)] :
        size \in {40, 5000}, fails \in SUBSET {1, 2, 3}}

(* Notifications that carry several reports: the X axis at a value of its  *)
(* own in each of them.                                                    *)
MaxCount == 2

BatchScenarios ==
    {[device |-> PartialDevice,
      notification |->
          Notification([k \in 1 .. Len(vs) |->
                           [values |-> {Field(HID_USAGE_PAGE_GENERIC,
                                              HID_USAGE_GENERIC_X, vs[k])},
                            pressed |-> {}, unreadable |-> {}]],
                       40, {})] :
        vs \in SeqUpTo(0 .. 4, MaxCount)}

(* The decoding starts with the device and the notification of a         *)
(* scenario.                                                               *)
StartsWith(sc) ==
    /\ device = sc.device
    /\ notification = sc.notification

(* The pump is left as constructed while one report is decoded.            *)
DecodeInit ==
    /\ PumpInit
    /\ callbacks = CallbackNames
    /\ decpc = "device"
    /\ \/ \E sc \in ButtonScenarios : StartsWith(Plain(sc))
       \/ \E sc \in ValueScenarios : StartsWith(Plain(sc))
       \/ \E sc \in ManyFieldScenarios : StartsWith(Plain(sc))
       \/ \E sc \in PartialScenarios : StartsWith(Plain(sc))
       \/ \E sc \in SliderHatScenarios : StartsWith(Plain(sc))
       \/ \E sc \in ReadScenarios : StartsWith(sc)
       \/ \E sc \in BatchScenarios : StartsWith(sc)
    /\ rawinput = "-"
    /\ hidCaps = "-"
    /\ hidEvent = "-"
    /\ joyEvent = "-"

(* FromDevice, when all its queries succeed: ValueCaps and ButtonCaps are  *)
(* resized to the number of caps the OS reports and filled by the OS.      *)
FromDeviceResult(dev) ==
    [ValueCaps |-> dev.ValueCaps, ButtonCaps |-> dev.ButtonCaps]

Min(a, b) == IF a <= b THEN a ELSE b

(* std::array<std::byte, 4096> stack_buf                                   *)
StackBufSize == 4096

(* RAWINPUT* nullptr, and the RAWINPUT of a notification: of its members   *)
(* data.hid.dwCount and data.hid.bRawData.                                 *)
nullptr == [null |-> TRUE, dwCount |-> 0, bRawData |-> << >>]

RawInputOf(n) == [null |-> FALSE, dwCount |-> Len(n.reports), bRawData |-> n.reports]

(* ::GetRawInputData(hRawInput, RID_INPUT, buffer, &size, ...), the k-th   *)
(* call made for the notification: the number of bytes copied and the      *)
(* RAWINPUT in the buffer; the result -1 when the OS fails the call or the *)
(* buffer is too small.                                                    *)
GetRawInputData(n, k, size) ==
    IF k \in n.fails \/ size < n.size
    THEN [result |-> -1, buffer |-> nullptr]
    ELSE [result |-> n.size, buffer |-> RawInputOf(n)]

(* ::GetRawInputData(hRawInput, RID_INPUT, nullptr, &required, ...), the   *)
(* size probe: the result 0 and the required size, or the result -1.       *)
GetRawInputDataSize(n, k) ==
    IF k \in n.fails
    THEN [result |-> -1, required |-> 0]
    ELSE [result |-> 0, required |-> n.size]

(* The calls input_data_buffer makes, each with the size of its buffer.    *)
ReadCall(size) == [fn |-> "read", size |-> size]

ProbeCall == [fn |-> "probe", size |-> 0]

(* Variant: after a failed read into the heap buffer the size is probed    *)
(* and the payload read once more.                                         *)
input_data_buffer_retrying(n) ==
    LET first == GetRawInputData(n, 1, StackBufSize)
        probe == GetRawInputDataSize(n, 2)
        second == GetRawInputData(n, 3, probe.required)
        third == GetRawInputData(n, 5, probe.required)
    IN  IF first.result # -1
        THEN [data |-> first.buffer, calls |-> << ReadCall(StackBufSize) >>]
        ELSE IF probe.result # 0
        THEN [data |-> nullptr, calls |-> << ReadCall(StackBufSize), ProbeCall >>]
        ELSE IF second.result # -1
        THEN [data |-> second.buffer,
              calls |-> << ReadCall(StackBufSize), ProbeCall,
                           ReadCall(probe.required) >>]
        ELSE [data |-> third.buffer,
              calls |-> << ReadCall(StackBufSize), ProbeCall,
                           ReadCall(probe.required), ProbeCall,
                           ReadCall(probe.required) >>]

(* input_data_buffer: the RAWINPUT read into stack_buf; or, when that      *)
(* read fails and the size probe succeeds, read into a heap_buf of the     *)
(* probed size; nullptr when the last call made has failed.                *)
input_data_buffer(n) ==
    LET first == GetRawInputData(n, 1, StackBufSize)
        probe == GetRawInputDataSize(n, 2)
        second == GetRawInputData(n, 3, probe.required)
    IN  IF first.result # -1
        THEN [data |-> first.buffer, calls |-> << ReadCall(StackBufSize) >>]
        ELSE IF probe.result # 0
        THEN [data |-> nullptr, calls |-> << ReadCall(StackBufSize), ProbeCall >>]
        ELSE [data |-> IF second.result # -1 THEN second.buffer ELSE nullptr,
              calls |-> << ReadCall(StackBufSize), ProbeCall,
                           ReadCall(probe.required) >>]

(* input_data with input_size = dwSizeHid: the block the HidP_ functions   *)
(* are given is the first dwSizeHid bytes of bRawData, the first report.   *)
input_data(input) == input.bRawData[1]

(* FixedVector::push_back: the item is dropped when the vector is full.    *)
push_back(vec, item, capacity) ==
    IF Len(vec) < capacity THEN Append(vec, item) ELSE vec

(* HidP_GetUsageValue: the fields of the report addressed by page and      *)
(* usage; none means a status other than HIDP_STATUS_SUCCESS.              *)
HidP_GetUsageValue(input, page, usage) ==
    {f \in input.values : f.Page = page /\ f.Usage = usage}

(* HidP_GetUsages: all usages of the page that the report has pressed,     *)
(* whatever cap of the page they belong to.                                *)
HidP_GetUsages(input, page) ==
    {b.Usage : b \in {x \in input.pressed : x.Page = page}}

(* The status of HidP_GetUsages is HIDP_STATUS_SUCCESS.                    *)
HidP_GetUsagesSucceeds(input, page) == page \notin input.unreadable

(* Variant: every cap of the descriptor is read.                           *)
value_count_unbounded(caps) == Len(caps.ValueCaps)

(* std::min(caps->ValueCaps.size(), e.Values.capacity())                   *)
value_count(caps) == Min(Len(caps.ValueCaps), kMaxCountOfValues)

(* std::min(caps->ButtonCaps.size(), e.Buttons.capacity())                 *)
button_page_count(caps) == Min(Len(caps.ButtonCaps), kMaxCountOfButtonPages)

(* Variant: the loop ends at the first cap whose field cannot be read.     *)
RECURSIVE ProcessValueInputAborting(_, _, _, _)
ProcessValueInputAborting(i, caps, input, Values) ==
    IF i > value_count(caps) THEN Values
    ELSE LET cap == caps.ValueCaps[i]
             got == HidP_GetUsageValue(input, cap.UsagePage, cap.Usage)
         IN  IF got = {} THEN Values
             ELSE ProcessValueInputAborting(i + 1, caps, input,
                    push_back(Values,
                              [Page |-> cap.UsagePage,
                               Usage |-> cap.Usage,
                               Value |-> (CHOOSE f \in got : TRUE).Value,
                               MinValue |-> cap.LogicalMin,
                               MaxValue |-> cap.LogicalMax],
                              kMaxCountOfValues))

(* The loop "process value input", from cap i on.                          *)
RECURSIVE ProcessValueInput(_, _, _, _)
ProcessValueInput(i, caps, input, Values) ==
    IF i > value_count(caps) THEN Values
    ELSE LET cap == caps.ValueCaps[i]
             got == HidP_GetUsageValue(input, cap.UsagePage, cap.Usage)
         IN  ProcessValueInput(i + 1, caps, input,
                IF got # {}
                THEN push_back(Values,
                               [Page |-> cap.UsagePage,
                                Usage |-> cap.Usage,
                                Value |-> (CHOOSE f \in got : TRUE).Value,
                                MinValue |-> cap.LogicalMin,
                                MaxValue |-> cap.LogicalMax],
                               kMaxCountOfValues)
                ELSE Values)

(* The test of the bit index of a pressed usage: "index <= count && index  *)
(* < kMaxCountOfButtonsPerPage".  index is a size_t: for a usage below     *)
(* first it wraps to a value above every count and fails the test.         *)
IndexAccepted(usage, first, count) ==
    /\ usage >= first
    /\ usage - first <= count
    /\ usage - first < kMaxCountOfButtonsPerPage

(* pressed_button_bit, as the set of the positions of its 1 bits.          *)
pressed_button_bit(usages, first, count) ==
    {u - first : u \in {x \in usages : IndexAccepted(x, first, count)}}

(* The loop "process button input", from cap i on.                         *)
RECURSIVE ProcessButtonInput(_, _, _, _)
ProcessButtonInput(i, caps, input, Buttons) ==
    IF i > button_page_count(caps) THEN Buttons
    ELSE LET cap == caps.ButtonCaps[i]
             first == cap.UsageMin
             last == IF cap.IsRange THEN cap.UsageMax ELSE cap.UsageMin
             count == IF cap.IsRange THEN last - first + 1 ELSE 1
         IN  ProcessButtonInput(i + 1, caps, input,
                IF HidP_GetUsagesSucceeds(input, cap.UsagePage)
                THEN push_back(Buttons,
                               [Page |-> cap.UsagePage,
                                UsageMin |-> first,
                                UsageMax |-> last,
                                ButtonCount |-> count % 65536,
                                ButtonStatuses |->
                                    pressed_button_bit(
                                        HidP_GetUsages(input, cap.UsagePage),
                                        first, count)],
                               kMaxCountOfButtonPages)
                ELSE Buttons)

(* HidEvent::Parse with a descriptor.                                      *)
HidEventParse(input, caps) ==
    [Values |-> ProcessValueInput(1, caps, input_data(input), << >>),
     Buttons |-> ProcessButtonInput(1, caps, input_data(input), << >>)]

(* float values.  A number is the exact fraction n/d (the conversions and  *)
(* the arithmetic of the inputs used here are exact in binary32); a        *)
(* division by zero gives an infinity or, for 0/0, a NaN.                  *)
Num(n, d) == [kind |-> "num", n |-> n, d |-> d]

NaN == [kind |-> "nan", n |-> 0, d |-> 1]

PosInf == [kind |-> "+inf", n |-> 0, d |-> 1]

NegInf == [kind |-> "-inf", n |-> 0, d |-> 1]

(* std::nullopt                                                            *)
Absent == [kind |-> "absent", n |-> 0, d |-> 1]

(* static_cast<float>(i)                                                   *)
Float(i) == Num(i, 1)

FSub(a, b) == Num(a.n * b.d - b.n * a.d, a.d * b.d)

FDiv(a, b) ==
    IF b.n = 0
    THEN (IF a.n = 0 THEN NaN ELSE IF a.n > 0 THEN PosInf ELSE NegInf)
    ELSE IF b.n > 0 THEN Num(a.n * b.d, a.d * b.n)
    ELSE Num(-(a.n * b.d), -(a.d * b.n))

(* a < b; false when either is a NaN.                                      *)
FLess(a, b) ==
    CASE a.kind = "nan" \/ b.kind = "nan"   -> FALSE
      [] a.kind = "num" /\ b.kind = "num"   -> a.n * b.d < b.n * a.d
      [] a.kind = "-inf"                    -> b.kind # "-inf"
      [] a.kind = "+inf"                    -> FALSE
      [] OTHER                              -> b.kind = "+inf"

FEq(a, b) == a.kind = "num" /\ b.kind = "num" /\ a.n * b.d = b.n * a.d

(* std::clamp(v, lo, hi) == (v < lo) ? lo : (hi < v) ? hi : v              *)
clamp(v, lo, hi) == IF FLess(v, lo) THEN lo ELSE IF FLess(hi, v) THEN hi ELSE v

(* Variant: the quotient is returned as it is.                             *)
normalize_axis_unclamped(v) ==
    LET center == FDiv(FSub(Float(v.MaxValue), Float(v.MinValue)), Float(2))
    IN  FDiv(FSub(Float(v.Value), center), center)

normalize_axis(v) ==
    LET val == Float(v.Value)
        min == Float(v.MinValue)
        max == Float(v.MaxValue)
        center == FDiv(FSub(max, min), Float(2))
    IN  clamp(FDiv(FSub(val, center), center), Float(-1), Float(1))

(* Variant: a value outside the range is clamped into it.                  *)
normalize_throttle_clamping(v) ==
    clamp(FDiv(FSub(Float(v.Value), Float(v.MinValue)),
               FSub(Float(v.MaxValue), Float(v.MinValue))),
          Float(0), Float(1))

normalize_throttle(v) ==
    LET val == Float(v.Value)
        min == Float(v.MinValue)
        max == Float(v.MaxValue)
        ragne == FSub(max, min)
    IN  IF ~FLess(val, min) /\ ~FLess(max, val)
        THEN clamp(FDiv(FSub(val, min), ragne), Float(0), Float(1))
        ELSE Absent

(* std::cos(x * PI2) and std::sin(x * PI2), kept as terms of the turn x.   *)
Cos(x) == IF x.kind = "num" THEN [kind |-> "cos", n |-> x.n, d |-> x.d] ELSE NaN

Sin(x) == IF x.kind = "num" THEN [kind |-> "sin", n |-> x.n, d |-> x.d] ELSE NaN

(* "r.HatSwitch0 ? std::cos(value of r.HatSwitch0 * PI2) : 0.0f"          *)
HatSwitchX(hat) == IF hat.kind # "absent" THEN Cos(hat) ELSE Float(0)

(* "r.HatSwitch0 ? std::sin(value of r.HatSwitch0 * PI2) : 0.0f"          *)
HatSwitchY(hat) == IF hat.kind # "absent" THEN Sin(hat) ELSE Float(0)

(* Variant: the optional members start at 0.0f.                            *)
EmptyJoystickZeroFilled ==
    [X |-> Float(0), Y |-> Float(0), Z |-> Float(0),
     RotX |-> Float(0), RotY |-> Float(0), RotZ |-> Float(0),
     Slider0 |-> Float(0), Slider1 |-> Float(0), Slider2 |-> Float(0),
     Slider3 |-> Float(0),
     HatSwitch0 |-> Float(0), HatSwitch1 |-> Float(0),
     HatSwitch0X |-> Float(0), HatSwitch0Y |-> Float(0),
     HatSwitch1X |-> Float(0), HatSwitch1Y |-> Float(0),
     ButtonCount |-> 0, Buttons |-> {},
     slider_count |-> 0, hat_switch_count |-> 0]

(* JoystickHidEvent r{e.Device, e.Timestamp}, with the two counters of     *)
(* FromHidEvent.                                                           *)
EmptyJoystick ==
    [X |-> Absent, Y |-> Absent, Z |-> Absent,
     RotX |-> Absent, RotY |-> Absent, RotZ |-> Absent,
     Slider0 |-> Absent, Slider1 |-> Absent, Slider2 |-> Absent,
     Slider3 |-> Absent,
     HatSwitch0 |-> Absent, HatSwitch1 |-> Absent,
     HatSwitch0X |-> Absent, HatSwitch0Y |-> Absent,
     HatSwitch1X |-> Absent, HatSwitch1Y |-> Absent,
     ButtonCount |-> 0, Buttons |-> {},
     slider_count |-> 0, hat_switch_count |-> 0]

SetHat0(r, hat) ==
    [r EXCEPT !.HatSwitch0 = hat,
              !.HatSwitch0X = HatSwitchX(hat),
              !.HatSwitch0Y = HatSwitchY(hat)]

SetHat1(r, hat) ==
    [r EXCEPT !.HatSwitch1 = hat,
              !.HatSwitch1X = HatSwitchX(hat),
              !.HatSwitch1Y = HatSwitchY(hat)]

(* Variant: a slider after the fourth is stored in Slider3, a hat switch   *)
(* after the second in HatSwitch1.                                         *)
GenericPageLastWins(r, value) ==
    IF value.Page # HID_USAGE_PAGE_GENERIC THEN r
    ELSE CASE value.Usage = HID_USAGE_GENERIC_X  -> [r EXCEPT !.X = normalize_axis(value)]
           [] value.Usage = HID_USAGE_GENERIC_Y  -> [r EXCEPT !.Y = normalize_axis(value)]
           [] value.Usage = HID_USAGE_GENERIC_Z  -> [r EXCEPT !.Z = normalize_axis(value)]
           [] value.Usage = HID_USAGE_GENERIC_RX -> [r EXCEPT !.RotX = normalize_axis(value)]
           [] value.Usage = HID_USAGE_GENERIC_RY -> [r EXCEPT !.RotY = normalize_axis(value)]
           [] value.Usage = HID_USAGE_GENERIC_RZ -> [r EXCEPT !.RotZ = normalize_axis(value)]
           [] value.Usage = HID_USAGE_GENERIC_SLIDER ->
                LET s == [r EXCEPT !.slider_count = @ + 1] IN
                CASE r.slider_count = 0 -> [s EXCEPT !.Slider0 = normalize_throttle(value)]
                  [] r.slider_count = 1 -> [s EXCEPT !.Slider1 = normalize_throttle(value)]
                  [] r.slider_count = 2 -> [s EXCEPT !.Slider2 = normalize_throttle(value)]
                  [] OTHER -> [s EXCEPT !.Slider3 = normalize_throttle(value)]
           [] value.Usage = HID_USAGE_GENERIC_HATSWITCH ->
                LET s == [r EXCEPT !.hat_switch_count = @ + 1] IN
                CASE r.hat_switch_count = 0 -> SetHat0(s, normalize_throttle(value))
                  [] OTHER -> SetHat1(s, normalize_throttle(value))
           [] OTHER -> r

(* if (value.Page == HID_USAGE_PAGE_GENERIC) switch (value.Usage) ...      *)
GenericPage(r, value) ==
    IF value.Page # HID_USAGE_PAGE_GENERIC THEN r
    ELSE CASE value.Usage = HID_USAGE_GENERIC_X  -> [r EXCEPT !.X = normalize_axis(value)]
           [] value.Usage = HID_USAGE_GENERIC_Y  -> [r EXCEPT !.Y = normalize_axis(value)]
           [] value.Usage = HID_USAGE_GENERIC_Z  -> [r EXCEPT !.Z = normalize_axis(value)]
           [] value.Usage = HID_USAGE_GENERIC_RX -> [r EXCEPT !.RotX = normalize_axis(value)]
           [] value.Usage = HID_USAGE_GENERIC_RY -> [r EXCEPT !.RotY = normalize_axis(value)]
           [] value.Usage = HID_USAGE_GENERIC_RZ -> [r EXCEPT !.RotZ = normalize_axis(value)]
           [] value.Usage = HID_USAGE_GENERIC_SLIDER ->
                LET s == [r EXCEPT !.slider_count = @ + 1] IN
                CASE r.slider_count = 0 -> [s EXCEPT !.Slider0 = normalize_throttle(value)]
                  [] r.slider_count = 1 -> [s EXCEPT !.Slider1 = normalize_throttle(value)]
                  [] r.slider_count = 2 -> [s EXCEPT !.Slider2 = normalize_throttle(value)]
                  [] r.slider_count = 3 -> [s EXCEPT !.Slider3 = normalize_throttle(value)]
                  [] OTHER -> s
           [] value.Usage = HID_USAGE_GENERIC_HATSWITCH ->
                LET s == [r EXCEPT !.hat_switch_count = @ + 1] IN
                CASE r.hat_switch_count = 0 -> SetHat0(s, normalize_throttle(value))
                  [] r.hat_switch_count = 1 -> SetHat1(s, normalize_throttle(value))
                  [] OTHER -> s
           [] OTHER -> r

(* if (value.Page == HID_USAGE_PAGE_SIMULATION) switch (value.Usage) ...   *)
SimulationPage(r, value) ==
    IF value.Page # HID_USAGE_PAGE_SIMULATION THEN r
    ELSE CASE value.Usage = HID_USAGE_SIMULATION_STEERING ->
                [r EXCEPT !.X = normalize_axis(value)]
           [] value.Usage = HID_USAGE_SIMULATION_ACCELLERATOR ->
                [r EXCEPT !.Y = normalize_axis(value)]
           [] value.Usage = HID_USAGE_SIMULATION_BRAKE ->
                [r EXCEPT !.Z = normalize_axis(value)]
           [] value.Usage = HID_USAGE_SIMULATION_RUDDER ->
                [r EXCEPT !.RotZ = normalize_axis(value)]
           [] value.Usage = HID_USAGE_SIMULATION_THROTTLE ->
                [r EXCEPT !.Slider0 = normalize_throttle(value)]
           [] OTHER -> r

(* if (value.Page == HID_USAGE_PAGE_GAME) switch (value.Usage) ...         *)
GamePage(r, value) ==
    IF value.Page # HID_USAGE_PAGE_GAME THEN r
    ELSE IF value.Usage = HID_USAGE_GAME_POINT_OF_VIEW
         THEN SetHat0(r, normalize_throttle(value))
         ELSE r

(* for (auto&& value : e.Values): the three blocks, for each value in the  *)
(* order of e.Values.                                                      *)
RECURSIVE ForEachValue(_, _, _)
ForEachValue(i, Values, r) ==
    IF i > Len(Values) THEN r
    ELSE ForEachValue(i + 1, Values,
            GamePage(SimulationPage(GenericPage(r, Values[i]), Values[i]),
                     Values[i]))

(* ButtonStatuses << button_index in 64 bits: the bits pushed to position  *)
(* 64 and beyond are lost.  button_index is below 64 here, the loop having *)
(* ended otherwise.                                                        *)
ShiftLeft(bits, k) == {b + k : b \in bits} \cap (0 .. 63)

(* for (auto&& p : e.Buttons): from page i on.                             *)
RECURSIVE ForEachButtonPage(_, _, _, _)
ForEachButtonPage(i, Buttons, button_index, button_status) ==
    IF i > Len(Buttons)
    THEN [button_index |-> button_index, button_status |-> button_status]
    ELSE LET p == Buttons[i]
             isButton == p.Page = HID_USAGE_PAGE_BUTTON
             status == IF isButton
                       THEN button_status \cup ShiftLeft(p.ButtonStatuses, button_index)
                       ELSE button_status
             index == IF isButton THEN button_index + p.ButtonCount
                      ELSE button_index
         IN  IF index >= 64
             THEN [button_index |-> index, button_status |-> status]
             ELSE ForEachButtonPage(i + 1, Buttons, index, status)

(* JoystickHidEvent::FromHidEvent                                          *)
FromHidEvent(e) ==
    LET r == ForEachValue(1, e.Values, EmptyJoystick)
        b == ForEachButtonPage(1, e.Buttons, 0, {})
    IN  [r EXCEPT !.ButtonCount = b.button_index, !.Buttons = b.button_status]

(* The steps of the decoding: the descriptor is made at construction, the  *)
(* notification is read, parsed and normalized.                            *)
DecodeFromDevice ==
    /\ decpc = "device"
    /\ hidCaps' = FromDeviceResult(device)
    /\ decpc' = "caps"
    /\ UNCHANGED << pumpVars, device, notification, rawinput, hidEvent,
                    joyEvent >>

(* RAWINPUT* data = input_data_buffer(hRawInput).  What the pump does with *)
(* a nullptr is PumpBeginInput's matter; here the decoding ends.           *)
DecodeRead ==
    /\ decpc = "caps"
    /\ rawinput' = input_data_buffer(notification)
    /\ decpc' = IF rawinput'.data = nullptr THEN "nodata" ELSE "data"
    /\ UNCHANGED << pumpVars, device, notification, hidCaps, hidEvent,
                    joyEvent >>

(* One call of HidEvent::Parse for the notification.                       *)
DecodeParse ==
    /\ decpc = "data"
    /\ hidEvent' = HidEventParse(rawinput.data, hidCaps)
    /\ decpc' = "event"
    /\ UNCHANGED << pumpVars, device, notification, rawinput, hidCaps,
                    joyEvent >>

(* One call of JoystickHidEvent::FromHidEvent for the notification.        *)
DecodeNormalize ==
    /\ decpc = "event"
    /\ joyEvent' = FromHidEvent(hidEvent)
    /\ decpc' = "joystick"
    /\ UNCHANGED << pumpVars, device, notification, rawinput, hidCaps,
                    hidEvent >>

DecodeNext == DecodeFromDevice \/ DecodeRead \/ DecodeParse \/ DecodeNormalize

DecodeSpec == DecodeInit /\ [][DecodeNext]_vars

----------------------------------------------------------------------------
(* Properties.                                                             *)

(* StartRawInput has returned the handle (and it may have been dropped).   *)
HandleReturned == mainpc \in {"running", "dtorJoin", "destroyed"}

LogIndex == 1 .. Len(log)

FindIndex == 1 .. Len(finds)

(* A lookup made while the cache was alive, for a report that was read.    *)
ValidFind(i) == finds[i].alive /\ finds[i].data = "ok"

(* Stage of a callback within one report: raw, typed, normalized.          *)
CallbackStage(cb) ==
    CASE cb = "Raw" -> 1
      [] cb = "Joy" -> 3
      [] OTHER      -> 2

(* C1: once the destruction of the listener handle has returned, no        *)
(* callback is invoked any more, whatever was queued or in work when the   *)
(* teardown began: the callback log never grows in a step taken after      *)
(* the destructor has returned.                                            *)
C1_NoCallbackAfterTeardown == [][mainpc = "destroyed" => log' = log]_vars

(* C1 witness: the destructor has returned, callbacks were invoked before, *)
(* a HID notification was worked on after the teardown had begun, and      *)
(* another notification was still queued when the pump stopped.            *)
C1_Witness ==
    /\ mainpc = "destroyed"
    /\ log # << >>
    /\ \E m \in 1 .. Len(queue) : queue[m].kind = "INPUT"
    /\ \E i \in FindIndex : ~finds[i].alive

(* C2: StartRawInput returns the handle only after the pump thread has     *)
(* created its window and queue and has set the ready promise.             *)
C2_ReadyBeforeHandle ==
    HandleReturned => (ready /\ pumppc \notin {"notStarted", "init", "notify"})

(* C2 witness: the handle is out, the pump waits in its message loop and   *)
(* the registration request waits in its queue.                            *)
C2_Witness ==
    /\ mainpc = "running"
    /\ pumppc = "loop"
    /\ queue # << >>

(* C3: notifications are retrieved in the order of their delivery, one at  *)
(* a time and none skipped, and every callback of an earlier notification  *)
(* precedes every callback of a later one.                                 *)
C3_ReportsInArrivalOrder ==
    /\ handled = [i \in 1 .. Len(handled) |-> i]
    /\ Len(handled) <= nDelivered
    /\ \A i \in LogIndex : log[i].id \in 1 .. Len(handled)
    /\ \A i, j \in LogIndex : i < j => log[i].id <= log[j].id
    /\ Processing => cur.id = Len(handled)

(* C3 witness: two notifications were delivered and both had callbacks.    *)
C3_Witness ==
    /\ Len(handled) = 2
    /\ \E i, j \in LogIndex : log[i].id = 1 /\ log[j].id = 2

(* C4: within one report the raw callback comes first, then the typed      *)
(* callback (keyboard, mouse or HID), then the joystick callback, each at  *)
(* most once, and the callbacks of one report are not interleaved with     *)
(* those of another.                                                       *)
C4_CallbackOrderInReport ==
    \A i, j \in LogIndex :
        i < j =>
            \/ log[i].id < log[j].id
            \/ /\ log[i].id = log[j].id
               /\ CallbackStage(log[i].cb) < CallbackStage(log[j].cb)

(* C4 witness: one HID report raised the raw, the HID and the joystick     *)
(* callback.                                                               *)
C4_Witness ==
    \E i, j, k \in LogIndex :
        /\ i < j /\ j < k
        /\ log[i].id = log[k].id /\ log[j].id = log[k].id
        /\ log[i].cb = "Raw" /\ log[j].cb = "Hid" /\ log[k].cb = "Joy"

(* C5: a report whose payload could not be read is dropped: no callback    *)
(* is invoked for it, its data is not dereferenced, and the pump goes on.  *)
C5_FailedReadIsDropped ==
    /\ \A i \in LogIndex : log[i].id \notin readFailed
    /\ ~(pumppc = "crashed" /\ cur.data = "null")

(* C6: when the start-up subscription fails, the caller holds no handle    *)
(* of a listener that looks alive.                                         *)
C6_SubscriptionFailureSurfaced == regStatus = "failed" => mainpc # "running"

(* C7: the teardown always completes: while the destructor waits for the   *)
(* pump thread, some step of the program is possible.                      *)
C7_TeardownNeverStuck == mainpc = "dtorJoin" => ENABLED (MainStep \/ PumpStep)

(* C8: FromDevice is called at most once per device identity, and every    *)
(* lookup made during the listener's life gives, for one identity, the     *)
(* same answer: the descriptor stored by that one call, or none.           *)
C8_ResolutionMemoized ==
    /\ \A d \in Devices : queryCount[d] <= 1
    /\ \A i, j \in FindIndex :
         (ValidFind(i) /\ ValidFind(j) /\ finds[i].dev = finds[j].dev)
            => finds[i].result = finds[j].result
    /\ \A i \in FindIndex :
         ValidFind(i) =>
            (finds[i].result = "hit" <=>
                (queryCount[finds[i].dev] = 1 /\ cache[finds[i].dev] = "caps"))

(* C8 witness: two reports of one device were looked up and both found     *)
(* the descriptor of the single query.                                     *)
C8_Witness ==
    /\ Len(finds) = 2
    /\ ValidFind(1) /\ ValidFind(2)
    /\ finds[1].dev = finds[2].dev
    /\ finds[1].result = "hit" /\ finds[2].result = "hit"
    /\ queryCount[finds[1].dev] = 1

(* C9: after the disconnect of a device the cache holds no entry for it,   *)
(* and the reports of the identity the device comes back under are         *)
(* resolved by a fresh query.                                              *)
C9_DisconnectEvictsAndReconnectResolves ==
    /\ cacheAlive => \A d \in notifiedGone : cache[d] = "absent"
    /\ \A i \in FindIndex :
         (ValidFind(i) /\ EarlierIdentities(finds[i].dev) # {})
            => queryCount[finds[i].dev] = 1

(* C10: the first report of a device that was not connected at start-up    *)
(* makes its descriptor be resolved and cached.                            *)
C10_LazyResolutionOnFirstReport ==
    \A i \in FindIndex :
        (ValidFind(i) /\ finds[i].dev \notin startupList)
            => (queryCount[finds[i].dev] = 1 /\ cache[finds[i].dev] # "absent")

(* C11: a failed resolution is stored as a negative result.  Every lookup  *)
(* of such a device misses, the query is not made again, no HID or         *)
(* joystick callback is invoked for its reports, the raw callback still    *)
(* is, and the pump thread does not fault on it.                           *)
C11_NegativeResultCached ==
    /\ \A i \in FindIndex :
         (ValidFind(i) /\ cache[finds[i].dev] = "null") =>
            /\ finds[i].result = "miss"
            /\ queryCount[finds[i].dev] = 1
            /\ \A j \in LogIndex :
                 log[j].id = finds[i].id => log[j].cb \notin {"Hid", "Joy"}
            /\ "Raw" \in callbacks =>
                 \E j \in LogIndex : log[j].id = finds[i].id /\ log[j].cb = "Raw"
    /\ pumppc = "crashed" => (cur.data = "null" \/ ~cacheAlive)

(* C11 witness: a report of a joystick whose resolution had failed was     *)
(* looked up and skipped, its raw callback was invoked, and a keyboard     *)
(* report that came after it reached the keyboard callback.                *)
C11_Witness ==
    /\ pumppc = "loop"
    /\ \E i \in FindIndex :
         /\ ValidFind(i)
         /\ cache[finds[i].dev] = "null"
         /\ \E j, k \in LogIndex :
              /\ log[j].id = finds[i].id /\ log[j].cb = "Raw"
              /\ log[k].id > finds[i].id /\ log[k].cb = "Kbd"

(* C12: a decode function runs only when a callback that takes its result  *)
(* is registered: HidEvent::Parse only with the HID or the joystick        *)
(* callback, FromHidEvent only with the joystick callback, the keyboard    *)
(* and mouse parsers only with their own callback; and no callback that    *)
(* is not registered is invoked.                                           *)
C12_AbsentCallbackSkipsDecode ==
    /\ \A e \in decodes :
         /\ e.fn = DecoderOf("Hid") => ("Hid" \in callbacks \/ "Joy" \in callbacks)
         /\ e.fn = DecoderOf("Joy") => "Joy" \in callbacks
         /\ e.fn = DecoderOf("Kbd") => "Kbd" \in callbacks
         /\ e.fn = DecoderOf("Mouse") => "Mouse" \in callbacks
    /\ \A i \in LogIndex : log[i].cb \in callbacks

(* C12 witness: with the HID callback alone registered a HID report was    *)
(* parsed and delivered, and it was not normalized.                        *)
C12_Witness ==
    /\ callbacks = {"Hid"}
    /\ pumppc = "loop"
    /\ \E e \in decodes : e.fn = DecoderOf("Hid")
    /\ \A e \in decodes : e.fn # DecoderOf("Joy")
    /\ \E i \in LogIndex : log[i].cb = "Hid"

(* The report has been parsed.                                             *)
Parsed == decpc \in {"event", "joystick"}

(* The report HidEvent::Parse has read.                                    *)
report == input_data(rawinput.data)

(* The event has been normalized.                                          *)
Normalized == decpc = "joystick"

(* C13: in every decoded button field, bit i is set exactly when usage     *)
(* first + i is pressed and i is below the field's count and below 64.     *)
C13_ButtonBitIffUsageInRange ==
    Parsed =>
        \A k \in 1 .. Len(hidEvent.Buttons) :
            LET p == hidEvent.Buttons[k] IN
            p.ButtonStatuses =
                {i \in 0 .. 63 :
                    /\ i < Min(p.ButtonCount, kMaxCountOfButtonsPerPage)
                    /\ p.UsageMin + i \in HidP_GetUsages(report, p.Page)}

(* The button pages of an event that FromHidEvent concatenates.            *)
IsButtonPage(p) == p.Page = HID_USAGE_PAGE_BUTTON

(* offset_k: the sum of the counts of the button pages before page k.      *)
RECURSIVE PageOffset(_, _)
PageOffset(Buttons, k) ==
    IF k <= 1 THEN 0
    ELSE PageOffset(Buttons, k - 1)
         + (IF IsButtonPage(Buttons[k - 1]) THEN Buttons[k - 1].ButtonCount ELSE 0)

(* C14: ButtonCount is the number of bit positions the concatenated pages  *)
(* fill in the 64-bit set: the sum of their counts, cut at 64.             *)
C14_ButtonCountIsBitsWritten ==
    Normalized =>
        /\ joyEvent.ButtonCount <= 64
        /\ joyEvent.ButtonCount =
               Min(PageOffset(hidEvent.Buttons, Len(hidEvent.Buttons) + 1), 64)

(* C15: bit k of the normalized button set is bit k - offset_p of the      *)
(* button page p whose range [offset_p, offset_p + count_p) contains k;    *)
(* a position in no page's range, or at 64 and beyond, holds no bit.       *)
C15_ButtonPagesConcatenated ==
    Normalized =>
        \A k \in 0 .. 63 :
            k \in joyEvent.Buttons <=>
                \E j \in 1 .. Len(hidEvent.Buttons) :
                    LET p == hidEvent.Buttons[j]
                        offset == PageOffset(hidEvent.Buttons, j)
                    IN  /\ IsButtonPage(p)
                        /\ offset <= k
                        /\ k < offset + p.ButtonCount
                        /\ k - offset \in p.ButtonStatuses

(* The slot of the normalized state that a simulation or game usage maps   *)
(* to, and the value FromHidEvent stores in it for a field.                *)
SlotOf(usage) ==
    CASE usage = HID_USAGE_SIMULATION_STEERING     -> "X"
      [] usage = HID_USAGE_SIMULATION_ACCELLERATOR -> "Y"
      [] usage = HID_USAGE_SIMULATION_BRAKE        -> "Z"
      [] usage = HID_USAGE_SIMULATION_RUDDER       -> "RotZ"
      [] usage = HID_USAGE_SIMULATION_THROTTLE     -> "Slider0"
      [] usage = HID_USAGE_GAME_POINT_OF_VIEW      -> "HatSwitch0"

SlotValueOf(slot, v) ==
    IF slot \in {"Slider0", "HatSwitch0"} THEN normalize_throttle(v)
    ELSE normalize_axis(v)

(* C16: when the decoded report carries a generic-desktop field and the    *)
(* simulation or game field of the same slot, in either order, the slot    *)
(* holds the value of the simulation or game field.                        *)
C16_SimulationOverridesGeneric ==
    Normalized =>
        \A i, j \in 1 .. Len(hidEvent.Values) :
            LET g == hidEvent.Values[i]
                s == hidEvent.Values[j]
            IN  << <<g.Page, g.Usage>>, <<s.Page, s.Usage>> >> \in SlotPairs
                    => joyEvent[SlotOf(s.Usage)] = SlotValueOf(SlotOf(s.Usage), s)

(* A hat-switch field: the generic-desktop usage or the game page's point  *)
(* of view.                                                                *)
IsHatField(v) ==
    \/ v.Page = HID_USAGE_PAGE_GENERIC /\ v.Usage = HID_USAGE_GENERIC_HATSWITCH
    \/ v.Page = HID_USAGE_PAGE_GAME /\ v.Usage = HID_USAGE_GAME_POINT_OF_VIEW

OutOfRange(v) == v.Value < v.MinValue \/ v.Value > v.MaxValue

(* C17: when the hat-switch field of a report is out of its range, the     *)
(* hat switch is absent from the normalized state: its direction and both  *)
(* components of its vector are unset.                                     *)
C17_HatOutOfRangeIsAbsent ==
    (Normalized /\ Len(hidEvent.Values) = 1) =>
        LET v == hidEvent.Values[1] IN
        (IsHatField(v) /\ OutOfRange(v)) =>
            /\ joyEvent.HatSwitch0 = Absent
            /\ joyEvent.HatSwitch0X = Absent
            /\ joyEvent.HatSwitch0Y = Absent

(* A field normalized as a throttle into Slider0 when it is the only one.  *)
IsThrottleField(v) ==
    \/ v.Page = HID_USAGE_PAGE_GENERIC /\ v.Usage = HID_USAGE_GENERIC_SLIDER
    \/ v.Page = HID_USAGE_PAGE_SIMULATION /\ v.Usage = HID_USAGE_SIMULATION_THROTTLE

(* C18: a throttle value outside [min, max] gives an absent slot, never a  *)
(* clamped 0 or 1; a value inside a range min < max gives                  *)
(* (value - min) / (max - min), which is 0 at min and 1 at max.            *)
C18_ThrottleAbsentOutOfRange ==
    (Normalized /\ Len(hidEvent.Values) = 1) =>
        LET v == hidEvent.Values[1]
            out == joyEvent.Slider0
        IN  IsThrottleField(v) =>
              /\ OutOfRange(v) => out = Absent
              /\ (~OutOfRange(v) /\ v.MinValue < v.MaxValue) =>
                    /\ FEq(out, Num(v.Value - v.MinValue, v.MaxValue - v.MinValue))
                    /\ v.Value = v.MinValue => FEq(out, Float(0))
                    /\ v.Value = v.MaxValue => FEq(out, Float(1))
                    /\ ~FLess(out, Float(0)) /\ ~FLess(Float(1), out)

(* C18 witness: the slider of range 0..150 at value 200 was normalized     *)
(* and its slot is absent.                                                 *)
C18_Witness ==
    /\ Normalized
    /\ Len(hidEvent.Values) = 1
    /\ IsThrottleField(hidEvent.Values[1])
    /\ hidEvent.Values[1].Value = 200
    /\ hidEvent.Values[1].MinValue = 0
    /\ hidEvent.Values[1].MaxValue = 150
    /\ joyEvent.Slider0 = Absent

(* The axis slot a field is normalized into, "-" for a field that is no    *)
(* axis.                                                                   *)
AxisSlotOf(v) ==
    IF v.Page = HID_USAGE_PAGE_GENERIC
    THEN CASE v.Usage = HID_USAGE_GENERIC_X  -> "X"
           [] v.Usage = HID_USAGE_GENERIC_Y  -> "Y"
           [] v.Usage = HID_USAGE_GENERIC_Z  -> "Z"
           [] v.Usage = HID_USAGE_GENERIC_RX -> "RotX"
           [] v.Usage = HID_USAGE_GENERIC_RY -> "RotY"
           [] v.Usage = HID_USAGE_GENERIC_RZ -> "RotZ"
           [] OTHER -> "-"
    ELSE IF v.Page = HID_USAGE_PAGE_SIMULATION
            /\ v.Usage \in {HID_USAGE_SIMULATION_STEERING,
                            HID_USAGE_SIMULATION_ACCELLERATOR,
                            HID_USAGE_SIMULATION_BRAKE,
                            HID_USAGE_SIMULATION_RUDDER}
    THEN SlotOf(v.Usage)
    ELSE "-"

CapsBuilt == decpc \in {"caps", "event", "joystick"}

(* The report carries the field of a value cap.                            *)
Carried(cap) == HidP_GetUsageValue(report, cap.UsagePage, cap.Usage) # {}

(* The report's buttons of a button cap's page can be read.                *)
Readable(cap) == HidP_GetUsagesSucceeds(report, cap.UsagePage)

(* The first n elements of a sequence, all of them when it is shorter.     *)
FirstN(s, n) == SubSeq(s, 1, Min(Len(s), n))

C21_FailedFieldOmittedOnly ==
    Parsed =>
        LET vs == SelectSeq(FirstN(hidCaps.ValueCaps, kMaxCountOfValues), Carried)
            bs == SelectSeq(FirstN(hidCaps.ButtonCaps, kMaxCountOfButtonPages),
                            Readable)
        IN  /\ Len(hidEvent.Values) = Len(vs)
            /\ \A i \in 1 .. Len(vs) :
                  /\ hidEvent.Values[i].Page = vs[i].UsagePage
                  /\ hidEvent.Values[i].Usage = vs[i].Usage
                  /\ hidEvent.Values[i].MinValue = vs[i].LogicalMin
                  /\ hidEvent.Values[i].MaxValue = vs[i].LogicalMax
                  /\ \E f \in HidP_GetUsageValue(report, vs[i].UsagePage, vs[i].Usage) :
                        hidEvent.Values[i].Value = f.Value
            /\ Len(hidEvent.Buttons) = Len(bs)
            /\ \A i \in 1 .. Len(bs) :
                  /\ hidEvent.Buttons[i].Page = bs[i].UsagePage
                  /\ hidEvent.Buttons[i].UsageMin = bs[i].UsageMin

(* C21 witness: the report lacks the second of three axes and the buttons  *)
(* of the second of three button caps cannot be read; the decoded report   *)
(* holds the other two axes and the other two button pages, and it was     *)
(* normalized with both axes set.                                          *)
C21_Witness ==
    /\ Normalized
    /\ device = PartialDevice
    /\ ~Carried(device.ValueCaps[2])
    /\ report.unreadable = {HID_USAGE_PAGE_CONSUMER}
    /\ Len(hidEvent.Values) = 2
    /\ hidEvent.Values[1].Usage = HID_USAGE_GENERIC_X
    /\ hidEvent.Values[2].Usage = HID_USAGE_GENERIC_Z
    /\ Len(hidEvent.Buttons) = 2
    /\ hidEvent.Buttons[2].UsageMin = 5
    /\ joyEvent.X # Absent
    /\ joyEvent.Y = Absent
    /\ joyEvent.Z # Absent

(* The generic-desktop slider and hat-switch fields of a decoded report.   *)
IsSlider(v) ==
    v.Page = HID_USAGE_PAGE_GENERIC /\ v.Usage = HID_USAGE_GENERIC_SLIDER

IsGenericHat(v) ==
    v.Page = HID_USAGE_PAGE_GENERIC /\ v.Usage = HID_USAGE_GENERIC_HATSWITCH

(* A field of the simulation or the game page that is stored in Slider0 or *)
(* HatSwitch0 whatever the generic-desktop fields are.                     *)
IsSlotOverride(v) ==
    \/ v.Page = HID_USAGE_PAGE_SIMULATION /\ v.Usage = HID_USAGE_SIMULATION_THROTTLE
    \/ v.Page = HID_USAGE_PAGE_GAME /\ v.Usage = HID_USAGE_GAME_POINT_OF_VIEW

(* The throttle value of the k-th field of a sequence, absent when the     *)
(* sequence is shorter.                                                    *)
ThrottleOfNth(fields, k) ==
    IF k <= Len(fields) THEN normalize_throttle(fields[k]) ELSE Absent

(* C22: the k-th generic-desktop slider of a report, in the order of the   *)
(* decoded fields, is stored in Slider(k-1) for k up to 4, and the k-th    *)
(* hat switch in HatSwitch(k-1) for k up to 2; the sliders after the       *)
(* fourth and the hat switches after the second change no slot (in a       *)
(* report that has no simulation throttle and no point of view).           *)
C22_SlidersAndHatsInFirstSeenOrder ==
    (Normalized /\ \A i \in 1 .. Len(hidEvent.Values) :
                        ~IsSlotOverride(hidEvent.Values[i])) =>
        LET sliders == SelectSeq(hidEvent.Values, IsSlider)
            hats == SelectSeq(hidEvent.Values, IsGenericHat)
        IN  /\ joyEvent.Slider0 = ThrottleOfNth(sliders, 1)
            /\ joyEvent.Slider1 = ThrottleOfNth(sliders, 2)
            /\ joyEvent.Slider2 = ThrottleOfNth(sliders, 3)
            /\ joyEvent.Slider3 = ThrottleOfNth(sliders, 4)
            /\ joyEvent.HatSwitch0 = ThrottleOfNth(hats, 1)
            /\ joyEvent.HatSwitch1 = ThrottleOfNth(hats, 2)

(* C22 witness: a report of five sliders and three hat switches, each      *)
(* normalized to a value of its own; Slider3 holds the fourth slider and   *)
(* HatSwitch1 the second hat switch, not the last ones.                    *)
C22_Witness ==
    /\ Normalized
    /\ LET sliders == SelectSeq(hidEvent.Values, IsSlider)
           hats == SelectSeq(hidEvent.Values, IsGenericHat)
       IN  /\ Len(sliders) = 5
           /\ Len(hats) = 3
           /\ joyEvent.Slider3 = normalize_throttle(sliders[4])
           /\ joyEvent.Slider3 # normalize_throttle(sliders[5])
           /\ joyEvent.Slider3 # Absent
           /\ joyEvent.HatSwitch1 = normalize_throttle(hats[2])
           /\ joyEvent.HatSwitch1 # normalize_throttle(hats[3])
           /\ joyEvent.HatSwitch1 # Absent

(* The std::optional<float> members of JoystickHidEvent.                   *)
OptionalSlots ==
    {"X", "Y", "Z", "RotX", "RotY", "RotZ",
     "Slider0", "Slider1", "Slider2", "Slider3",
     "HatSwitch0", "HatSwitch1",
     "HatSwitch0X", "HatSwitch0Y", "HatSwitch1X", "HatSwitch1Y"}

(* The decoded fields carry a usage that FromHidEvent stores in the slot:  *)
(* an axis usage of the slot, the k-th slider or hat switch, the           *)
(* simulation throttle, the point of view.                                 *)
SlotCarried(slot, Values) ==
    LET n == Len(Values)
        sliders == Len(SelectSeq(Values, IsSlider))
        hats == Len(SelectSeq(Values, IsGenericHat))
        throttle == \E i \in 1 .. n :
                        /\ Values[i].Page = HID_USAGE_PAGE_SIMULATION
                        /\ Values[i].Usage = HID_USAGE_SIMULATION_THROTTLE
        pov == \E i \in 1 .. n :
                        /\ Values[i].Page = HID_USAGE_PAGE_GAME
                        /\ Values[i].Usage = HID_USAGE_GAME_POINT_OF_VIEW
    IN  CASE slot = "Slider0" -> sliders >= 1 \/ throttle
          [] slot = "Slider1" -> sliders >= 2
          [] slot = "Slider2" -> sliders >= 3
          [] slot = "Slider3" -> sliders >= 4
          [] slot \in {"HatSwitch0", "HatSwitch0X", "HatSwitch0Y"} -> hats >= 1 \/ pov
          [] slot \in {"HatSwitch1", "HatSwitch1X", "HatSwitch1Y"} -> hats >= 2
          [] OTHER -> \E i \in 1 .. n : AxisSlotOf(Values[i]) = slot

(* C23: an optional slot of the normalized state holds no value, not even  *)
(* a zero, when no decoded field maps to it; a report of unrecognized      *)
(* usages only leaves every slot absent.                                   *)
C23_UnsuppliedSlotAbsent ==
    Normalized =>
        \A slot \in OptionalSlots :
            ~SlotCarried(slot, hidEvent.Values) => joyEvent[slot] = Absent

(* C23 witness: a report whose one field has the usage number of the X     *)
(* axis on a page that is not the generic desktop, with a value inside its *)
(* range, was normalized: every slot is absent.                            *)
C23_Witness ==
    /\ Normalized
    /\ Len(hidEvent.Values) = 1
    /\ hidEvent.Values[1].Page = HID_USAGE_PAGE_CONSUMER
    /\ hidEvent.Values[1].Usage = HID_USAGE_GENERIC_X
    /\ ~OutOfRange(hidEvent.Values[1])
    /\ \A slot \in OptionalSlots : joyEvent[slot] = Absent

(* The slot a field is normalized into when it is the only field of the    *)
(* report, "-" for a field that sets none.                                 *)
ValueSlotOf(v) ==
    IF AxisSlotOf(v) # "-" THEN AxisSlotOf(v)
    ELSE IF IsThrottleField(v) THEN "Slider0"
    ELSE IF IsHatField(v) THEN "HatSwitch0"
    ELSE "-"

(* C24: a field whose value is below its minimum or above its maximum      *)
(* leaves its slot absent, the axes X, Y, Z, RotX, RotY, RotZ included: no *)
(* slot holds a value clamped into the range.                              *)
C24_OutOfRangeFieldIsAbsent ==
    (Normalized /\ Len(hidEvent.Values) = 1) =>
        LET v == hidEvent.Values[1] IN
        (ValueSlotOf(v) # "-" /\ OutOfRange(v)) =>
            joyEvent[ValueSlotOf(v)] = Absent

(* A step of the thread that constructs and destroys the listener.         *)
MainThreadStep == mainpc' # mainpc

(* C25: the cache map is written by the pump thread only: no step of the   *)
(* thread that constructs and destroys the listener inserts into it,       *)
(* removes from it or looks it up.                                         *)
C25_CacheTouchedByPumpOnly ==
    [][MainThreadStep => (cache' = cache /\ finds' = finds)]_vars

(* C26: the pump thread makes no lookup in the cache after the cache has   *)
(* been destroyed, and does not fault in one: the cache is alive at every  *)
(* lookup, whatever notification is in work when the handle is dropped.    *)
C26_NoLookupInDestroyedCache ==
    /\ \A i \in FindIndex : finds[i].alive
    /\ (pumppc = "crashed" /\ cur.data = "ok") => cacheAlive

(* The constructor has posted WM_REGISTER_DEVICE.                          *)
RegisterPosted == mainpc \in {"running", "dtorJoin", "destroyed"}

(* C27: the window is subscribed, and a notification is delivered,         *)
(* retrieved or in work, only after the constructor has enumerated the     *)
(* devices and stored the result of FromDevice for each of them.           *)
C27_CachePopulatedBeforeSubscription ==
    (subscribed \/ nDelivered > 0 \/ handled # << >> \/ Processing) =>
        /\ RegisterPosted
        /\ \A d \in startupList : queryCount[d] = 1 /\ cache[d] # "absent"

(* C27 witness: the joystick was connected when the listener was           *)
(* constructed, and its first report found the descriptor stored at        *)
(* start-up.                                                               *)
C27_Witness ==
    /\ subscribed
    /\ \E i \in FindIndex :
         /\ ValidFind(i)
         /\ finds[i].id = 1
         /\ finds[i].dev \in startupList
         /\ finds[i].result = "hit"

(* C28: the message loop exits only after the removal request of the       *)
(* destructor has been retrieved and handled by the pump thread: when the  *)
(* thread function has returned, the destructor has posted and no          *)
(* WM_REGISTER_DEVICE is left in the queue; and the destructor returns     *)
(* only after the thread function has.                                     *)
C28_UnsubscribeHandledBeforeExit ==
    /\ pumppc = "exited" =>
          /\ mainpc \in {"dtorJoin", "destroyed"}
          /\ \A m \in 1 .. Len(queue) : queue[m].kind # "REGISTER"
    /\ mainpc = "destroyed" => pumppc = "exited"

(* C28 witness: a listener that was subscribed and had handled a report    *)
(* is destroyed; the removal has been handled, the window is unsubscribed  *)
(* and a later notification is left unhandled in the queue.                *)
C28_Witness ==
    /\ mainpc = "destroyed"
    /\ pumppc = "exited"
    /\ regStatus = "ok"
    /\ ~subscribed
    /\ handled # << >>
    /\ \E m \in 1 .. Len(queue) : queue[m].kind = "INPUT"

(* input_data_buffer has returned.                                         *)
ReadDone == decpc \in {"data", "nodata", "event", "joystick"}

(* The OS answers the k-th call of GetRawInputData for the notification    *)
(* with success, the buffer being large enough.                            *)
FirstReadSucceeds == 1 \notin notification.fails /\ notification.size <= StackBufSize

(* C29: for one notification GetRawInputData is called at most three       *)
(* times: once with the fixed buffer; when that read fails, once more      *)
(* without a buffer to probe the size; and when the probe succeeds, once   *)
(* more with a buffer of the probed size.  The payload is the result of    *)
(* the last read when it succeeds, and nullptr otherwise.                  *)
C29_ReadIsProbeThenAllocate ==
    ReadDone =>
        LET calls == rawinput.calls
            n == Len(calls)
        IN  /\ n \in 1 .. 3
            /\ calls[1] = ReadCall(StackBufSize)
            /\ n >= 2 => calls[2] = ProbeCall
            /\ n = 3 => calls[3] = ReadCall(notification.size)
            /\ n = 1 <=> FirstReadSucceeds
            /\ n = 3 <=> (~FirstReadSucceeds /\ 2 \notin notification.fails)
            /\ rawinput.data # nullptr <=>
                  (FirstReadSucceeds \/ (n = 3 /\ 3 \notin notification.fails))
            /\ rawinput.data # nullptr => rawinput.data = RawInputOf(notification)

(* C29 witness: a RAWINPUT larger than the fixed buffer was read with      *)
(* three calls, the third into a buffer of its size, and was parsed.       *)
C29_Witness ==
    /\ Parsed
    /\ notification.size > StackBufSize
    /\ rawinput.calls = << ReadCall(StackBufSize), ProbeCall,
                           ReadCall(notification.size) >>
    /\ Len(hidEvent.Values) = 1

(* The events ProcessWMInput hands to the HID and to the joystick callback *)
(* for one notification: HidEvent::Parse and FromHidEvent are called once, *)
(* and each callback once with the result.                                 *)
DeliveredHidEvents == IF Parsed THEN << hidEvent >> ELSE << >>

DeliveredJoystickEvents == IF Normalized THEN << joyEvent >> ELSE << >>

(* The decoding of the k-th report of the notification on its own.         *)
ParseOfReport(k) ==
    HidEventParse([rawinput.data EXCEPT !.dwCount = 1,
                                        !.bRawData = << rawinput.data.bRawData[k] >>],
                  hidCaps)

(* C30: a notification of dwCount reports yields dwCount HID events and    *)
(* dwCount joystick events, the k-th decoded from the k-th report.         *)
C30_OneEventPerReport ==
    Normalized =>
        /\ Len(DeliveredHidEvents) = rawinput.data.dwCount
        /\ Len(DeliveredJoystickEvents) = rawinput.data.dwCount
        /\ \A k \in 1 .. rawinput.data.dwCount :
              /\ DeliveredHidEvents[k] = ParseOfReport(k)
              /\ DeliveredJoystickEvents[k] = FromHidEvent(ParseOfReport(k))

(* The notifications ProcessWMInput has finished.                          *)
Finished == {handled[k] : k \in 1 .. Len(handled)} \ {cur.id}

(* The invocations of callback cb for notification id.                     *)
InvocationsOf(cb, id) == {i \in LogIndex : log[i].cb = cb /\ log[i].id = id}

(* The class of the reports a typed callback takes.                        *)
ClassOf(cb) ==
    CASE cb = "Kbd"   -> "K"
      [] cb = "Mouse" -> "M"
      [] OTHER        -> "H"

(* C31: callbacks are dispatched by device class.  The raw callback, when  *)
(* registered, is invoked exactly once for every report that was read.     *)
(* Every typed event is made from a report that was read, carries that     *)
(* report's device, and that device is of the callback's class: a          *)
(* keyboard for the keyboard callback, a mouse for the mouse callback, a   *)
(* HID device whose capability descriptor was resolved for the HID and     *)
(* the joystick callback.                                                  *)
C31_DispatchByDeviceClass ==
    /\ \A id \in Finished \ readFailed :
         "Raw" \in callbacks => Cardinality(InvocationsOf("Raw", id)) = 1
    /\ \A i \in LogIndex :
         log[i].cb # "Raw" =>
            /\ log[i].id \notin readFailed
            /\ log[i].dev \in Devices
            /\ DevClass(log[i].dev) = ClassOf(log[i].cb)
            /\ log[i].cb \in {"Hid", "Joy"} => cache[log[i].dev] = "caps"

----------------------------------------------------------------------------
(* The enumeration at start-up, one OS query at a time.                    *)
(* GetRawInputDeviceList asks the OS for the number of devices, then for   *)
(* the list itself, and calls itself again when the second query fails.    *)

(* The possible results of the loop over the listed devices: a device is   *)
(* left out when one of its GetRawInputDeviceInfoW queries fails or when   *)
(* its type is not among target_device_types.                              *)
DescribedDevices(conn) == SUBSET conn

(* The function returns list to the constructor, whose body stores the     *)
(* result of FromDevice for every device of the list.                      *)
ReturnToConstructor(list) ==
    /\ \E res \in [list -> UNION {FromDevice(d) : d \in Devices}] :
         /\ \A d \in list : res[d] \in FromDevice(d)
         /\ cache' = [d \in Devices |-> IF d \in list THEN res[d] ELSE cache[d]]
         /\ queryCount' = [d \in Devices |-> queryCount[d] + FromDeviceCalls(list, d)]
         /\ startupList' = list
    /\ mainpc' = "postRegister"

(* ::GetRawInputDeviceList(nullptr, &count, ...): the count, or            *)
(* RAW_INPUT_ERROR, on which the function returns no device.               *)
QueryDeviceCount ==
    /\ Alive
    /\ mainpc = "enumerate"
    /\ \E ret \in {"count", "RAW_INPUT_ERROR"} :
         IF ret = "RAW_INPUT_ERROR"
         THEN ReturnToConstructor({})
         ELSE /\ mainpc' = "fillList"
              /\ UNCHANGED << cache, queryCount, startupList >>
    /\ UNCHANGED << decVars, decodes, pumppc, ready, queue, cur, callbacks, cacheAlive,
                    subscribed, regStatus, osVars, log, handled, readFailed,
                    notifiedGone, finds >>

(* ::GetRawInputDeviceList(connected_devices.data(), &count, ...): the     *)
(* list, or RAW_INPUT_ERROR, on which the function calls itself ("retry")  *)
(* and returns what that call returns.                                     *)
QueryDeviceList ==
    /\ Alive
    /\ mainpc = "fillList"
    /\ \E ret \in {"list", "RAW_INPUT_ERROR"} :
         IF ret = "RAW_INPUT_ERROR"
         THEN /\ mainpc' = "enumerate"
              /\ UNCHANGED << cache, queryCount, startupList >>
         ELSE \E list \in DescribedDevices(connected) : ReturnToConstructor(list)
    /\ UNCHANGED << decVars, decodes, pumppc, ready, queue, cur, callbacks, cacheAlive,
                    subscribed, regStatus, osVars, log, handled, readFailed,
                    notifiedGone, finds >>

(* The steps of the constructing thread up to the end of the enumeration.  *)
EnumMainStep == MainSpawn \/ MainWaitReady \/ QueryDeviceCount \/ QueryDeviceList

(* The steps of the pump thread while the constructor runs.                *)
EnumPumpStep == PumpCreateWindow \/ PumpNotifyReady \/ PumpDeviceChange

EnumOsStep == \E d \in Devices : Connect(d) \/ Disconnect(d)

EnumNext == EnumOsStep \/ EnumMainStep \/ EnumPumpStep

(* A thread that can take a step takes one; nothing is assumed of the      *)
(* answers of the OS.                                                      *)
EnumSpec ==
    Init /\ [][EnumNext]_vars /\ WF_vars(EnumMainStep) /\ WF_vars(EnumPumpStep)

(* C32: the enumeration at start-up terminates whatever the OS answers:    *)
(* once the constructor has called GetRawInputDeviceList, the call         *)
(* returns and the constructor goes on to post WM_REGISTER_DEVICE; a       *)
(* second list query that fails does not make the function start over      *)
(* without end.                                                            *)
C32_EnumerationTerminates == (mainpc = "enumerate") ~> (mainpc = "postRegister")

(* C33: an axis field of any range min < max, a range with min # 0 such as *)
(* -2..2 or 1..3 included, is normalized to -1 at value = min, to 1 at     *)
(* value = max and to 0 at the midpoint (min + max) / 2, and a smaller     *)
(* value of the same field is never normalized to a larger result.         *)
C33_AxisMapsRangeOntoUnitInterval ==
    (Normalized /\ Len(hidEvent.Values) = 1) =>
        LET v == hidEvent.Values[1] IN
        (AxisSlotOf(v) # "-" /\ v.MinValue < v.MaxValue) =>
            LET out == joyEvent[AxisSlotOf(v)] IN
            /\ v.Value = v.MinValue => FEq(out, Float(-1))
            /\ v.Value = v.MaxValue => FEq(out, Float(1))
            /\ 2 * v.Value = v.MinValue + v.MaxValue => FEq(out, Float(0))
            /\ \A w \in ValueChoices :
                 w <= v.Value =>
                    ~FLess(out, normalize_axis([v EXCEPT !.Value = w]))

====
